---------------------------- MODULE Spec2Model ----------------------------
(***************************************************************************)
(* A model of dashboard-jombang-flask/app.py: the SQLite article store     *)
(* (init_db, save_articles), the categorizer, the crawl orchestrator       *)
(* (crawl_all), the background scheduler (scheduler_loop, start_scheduler) *)
(* and the read route api_trend.                                           *)
(*                                                                         *)
(* Text (titles, the argument of categorize) is a sequence of one-         *)
(* character strings, so that lower() and the substring test `kw in t`     *)
(* are computed as Python computes them.                                   *)
(*                                                                         *)
(* Time is counted in ticks of a third of a day (eight hours), the         *)
(* resolution at which a +07:00 offset moves a timestamp over a date line. *)
(***************************************************************************)
EXTENDS Integers, Sequences, FiniteSets, TLC

\* ------------------------------------------------------------- bounds
\* The clock may advance this many ticks past NowStart.
MaxTicks == 1
\* start_scheduler may be invoked this many times.
MaxStarts == 2
\* Iterations of the scheduler's sleep loop, range(3600) scaled down.
SleepIters == 2
\* The texts given to categorize are made of at most this many fragments.
MaxFrags == 2
\* The day-window arguments of /api/trend are 0..MaxDays.
MaxDays == 2

\* ------------------------------------------------------------- time
TicksPerDay == 3
\* The clock at start-up: 16:00 UTC on day 2.
NowStart == 8

DayOf(t) == t \div TicksPerDay
TodOf(t) == t % TicksPerDay

\* A timestamp text.  fmt says how it is written:
\*   "iso"    YYYY-MM-DDTHH:MM:SS[.ffffff]      (datetime.isoformat(), naive)
\*   "isotz"  YYYY-MM-DDTHH:MM:SS+HH:MM         (a <time datetime=...> attribute)
\*   "text"   a display text such as "Senin, 25 Agu 2025 10:00 WIB"
\*   "None"   Python None
\* day and tod are the date and the time of day as written, off the offset.
Stamp(f, d, t, o) == [fmt |-> f, day |-> d, tod |-> t, off |-> o]
PubNone == Stamp("None", 0, 0, 0)
PubText == Stamp("text", 0, 0, 0)

\* datetime.utcnow().isoformat()
isoformat(t) == Stamp("iso", DayOf(t), TodOf(t), 0)

\* SQLite datetime(x): the UTC instant of x, or NULL when x is no timestamp.
NULL == -1000
sql_datetime(p) ==
    IF p.fmt \in {"iso", "isotz"}
      THEN p.day * TicksPerDay + p.tod - p.off
      ELSE NULL

\* SQLite substr(x, 1, 10): the date as written (no day for a display text).
NoDay == -1
sql_substr10(p) ==
    IF p.fmt \in {"iso", "isotz"} THEN p.day ELSE NoDay

\* ------------------------------------------------------------- text
ToLower ==
    [c \in {"A","B","C","D","E","F","G","H","I","J","K","L","M",
            "N","O","P","Q","R","S","T","U","V","W","X","Y","Z"} |->
       CASE c = "A" -> "a" [] c = "B" -> "b" [] c = "C" -> "c" [] c = "D" -> "d"
         [] c = "E" -> "e" [] c = "F" -> "f" [] c = "G" -> "g" [] c = "H" -> "h"
         [] c = "I" -> "i" [] c = "J" -> "j" [] c = "K" -> "k" [] c = "L" -> "l"
         [] c = "M" -> "m" [] c = "N" -> "n" [] c = "O" -> "o" [] c = "P" -> "p"
         [] c = "Q" -> "q" [] c = "R" -> "r" [] c = "S" -> "s" [] c = "T" -> "t"
         [] c = "U" -> "u" [] c = "V" -> "v" [] c = "W" -> "w" [] c = "X" -> "x"
         [] c = "Y" -> "y" [] c = "Z" -> "z"]

\* str.lower()
lower(t) ==
    [i \in 1..Len(t) |-> IF t[i] \in DOMAIN ToLower THEN ToLower[t[i]] ELSE t[i]]

\* Python's `kw in t` for strings.
Contains(kw, t) ==
    \E i \in 1..(Len(t) - Len(kw) + 1) :
        \A j \in 1..Len(kw) : t[i + j - 1] = kw[j]

\* Python None where a text is expected.
NoneText == << "None" >>

\* ------------------------------------------------------------- categorize
CATEGORY_KEYWORDS == <<
  [cat |-> "Pemerintahan", kws |-> <<
      <<"b","u","p","a","t","i">>,
      <<"d","p","r","d">>,
      <<"p","e","m","k","a","b">>,
      <<"p","e","r","a","t","u","r","a","n">>,
      <<"p","e","r","d","a">>,
      <<"k","p","u">>,
      <<"p","i","l","k","a","d","a">>,
      <<"p","e","m","e","r","i","n","t","a","h">>,
      <<"k","a","b","u","p","a","t","e","n">>,
      <<"s","e","k","d","a">>
  >>],
  [cat |-> "Ekonomi", kws |-> <<
      <<"e","k","o","n","o","m","i">>,
      <<"i","n","v","e","s","t","a","s","i">>,
      <<"p","a","s","a","r">>,
      <<"u","m","k","m">>,
      <<"i","n","d","u","s","t","r","i">>,
      <<"p","e","r","t","a","n","i","a","n">>,
      <<"e","k","s","p","o","r">>,
      <<"i","m","p","o","r">>
  >>],
  [cat |-> "Olahraga", kws |-> <<
      <<"o","l","a","h","r","a","g","a">>,
      <<"s","e","p","a","k","b","o","l","a">>,
      <<"v","o","l","i">>,
      <<"t","u","r","n","a","m","e","n">>,
      <<"l","i","g","a">>,
      <<"f","u","t","s","a","l">>,
      <<"p","i","a","l","a">>,
      <<"p","e","r","t","a","n","d","i","n","g","a","n">>
  >>],
  [cat |-> "Hukum", kws |-> <<
      <<"h","u","k","u","m">>,
      <<"k","r","i","m","i","n","a","l">>,
      <<"p","o","l","i","s","i">>,
      <<"p","e","n","g","a","d","i","l","a","n">>,
      <<"k","a","s","u","s">>,
      <<"k","e","j","a","k","s","a","a","n">>,
      <<"p","e","n","a","n","g","k","a","p","a","n">>,
      <<"s","i","d","a","n","g">>
  >>]
>>

\* The inner loop `for kw in kws: if kw in t: return cat`, from keyword ki on.
RECURSIVE ScanKeywords(_, _, _)
ScanKeywords(t, kws, ki) ==
    IF ki > Len(kws) THEN FALSE
    ELSE IF Contains(kws[ki], t) THEN TRUE
    ELSE ScanKeywords(t, kws, ki + 1)

\* The outer loop `for cat, kws in CATEGORY_KEYWORDS.items()`, from entry ci
\* on (a dict iterates in insertion order), and the final return "Lainnya".
RECURSIVE ScanCategories(_, _)
ScanCategories(t, ci) ==
    IF ci > Len(CATEGORY_KEYWORDS) THEN "Lainnya"
    ELSE IF ScanKeywords(t, CATEGORY_KEYWORDS[ci].kws, 1)
           THEN CATEGORY_KEYWORDS[ci].cat
           ELSE ScanCategories(t, ci + 1)

categorize_nolower(text) ==
    IF text = NoneText \/ text = << >> THEN "Lainnya"
    ELSE ScanCategories(text, 1)
categorize(text) ==
    IF text = NoneText \/ text = << >> THEN "Lainnya"
    ELSE ScanCategories(lower(text), 1)


\* ------------------------------------------------------------- titles, urls
TitleBupati == <<"B","u","p","a","t","i"," ","r","e","s","m","i","k","a","n">>
TitlePasarLiga == <<"H","a","r","g","a"," ","p","a","s","a","r"," ","l","i","g","a">>
TitleSidang == <<"S","i","d","a","n","g">>
TitleInfo == <<"i","n","f","o">>

\* Python None where a url is expected (an <a> without href).
None == "None"

\* ------------------------------------------------------------- the store
\* The threads that write: __main__'s start-up crawl, the scheduler thread
\* and the request thread serving /crawl-now.  Each save_articles call opens
\* its own connection.
Writers == {"main", "sched", "req"}

VARIABLES
    now,            \* datetime.utcnow(), in ticks
    db,             \* news.db as committed: [exists, hasCategory, rows, seq]
    lock,           \* the connection holding SQLite's write lock, or "none"
    pending,        \* per connection: the rows inserted and not yet committed
    counted,        \* per url: how often an insert of it had rowcount > 0
    cr,             \* per writer: where its crawl_all / save_articles stands
    invoked,        \* per writer: scrapers called in the current pass
    added,          \* per writer: rows its commits added in the current pass
    main_pc,        \* __main__: "init_db", "crawl", "start", "serve"
    crawl_thread,   \* _crawl_thread: "None" or "Thread"
    stop_flag,      \* _stop_flag
    loops,          \* scheduler_loop threads started
    starts,         \* invocations of start_scheduler so far
    start_calls,    \* invocations of start_scheduler that __main__ makes
    sched_pc,       \* scheduler_loop: "off", "top", "crawl", "sleep"
    sleep_i,        \* scheduler_loop: iterations of the sleep loop done
    req_pc,         \* /crawl-now: "idle", "crawl"
    trend,          \* /api/trend: the last response
    cat_in,         \* categorize: the argument
    cat_out         \* categorize: the result, or "unset"

vars == << now, db, lock, pending, counted, cr, invoked, added, main_pc,
           crawl_thread, stop_flag, loops, starts, start_calls, sched_pc, sleep_i,
           req_pc, trend, cat_in, cat_out >>

\* A row of table articles.  id is the AUTOINCREMENT key: unique, and larger
\* for a row inserted later (SQLite also passes over a number for each
\* ignored insert; the model numbers the rows without gaps).  category is
\* NoColumn while the table has no category column.
NoColumn == "(no column)"
Row(i, t, u, s, p, c, k) ==
    [id |-> i, title |-> t, url |-> u, source |-> s,
     published_at |-> p, created_at |-> c, category |-> k]

\* What a scraper emits: a dict with title, url, source, published_at.
Item(t, u, s, p) == [title |-> t, url |-> u, source |-> s, published_at |-> p]

UrlsOf(rows) == {r.url : r \in rows}
RangeOf(seq) == {seq[i] : i \in 1..Len(seq)}

\* title, url, source, published_at, created_at are declared NOT NULL.
NotNullViolation(row) ==
    \/ row.title = NoneText
    \/ row.url = None
    \/ row.published_at = PubNone

\* url is declared UNIQUE.
UniqueViolation_off(visible, row) == FALSE
UniqueViolation(visible, row) == row.url \in UrlsOf(visible)

\* INSERT OR IGNORE of one row by a connection that sees the committed rows
\* tbl and its own uncommitted rows pend: a row that violates NOT NULL or
\* UNIQUE is skipped, without an error, and rowcount is 0.
insert_or_replace(tbl, pend, row) ==
    IF NotNullViolation(row)
      THEN [tbl |-> tbl, pend |-> pend, rowcount |-> 0]
      ELSE [tbl |-> {r \in tbl : r.url # row.url},
            pend |-> Append(SelectSeq(pend, LAMBDA r : r.url # row.url), row),
            rowcount |-> 1]
insert_or_ignore(tbl, pend, row) ==
    IF NotNullViolation(row) \/ UniqueViolation(tbl \cup RangeOf(pend), row)
      THEN [tbl |-> tbl, pend |-> pend, rowcount |-> 0]
      ELSE [tbl |-> tbl, pend |-> Append(pend, row), rowcount |-> 1]

\* A connection's first write statement takes the database's write lock
\* (RESERVED) and keeps it until commit; another connection's write waits in
\* the busy handler until the lock is free.
CanWrite_nolock(w) == TRUE
CanWrite(w) == lock \in {"none", w}

\* ALTER TABLE articles ADD COLUMN category TEXT DEFAULT 'Lainnya': rows that
\* are already there read as the default.
AddCategoryColumn_nodefault(rows) ==
    {[r EXCEPT !.category = ""] : r \in rows}
AddCategoryColumn(rows) ==
    {[r EXCEPT !.category = "Lainnya"] : r \in rows}

\* init_db(): CREATE TABLE IF NOT EXISTS (without category), then the column
\* is added when PRAGMA table_info does not list it.
init_db(d) ==
    LET created == IF d.exists THEN d
                   ELSE [exists |-> TRUE, hasCategory |-> FALSE, rows |-> {},
                         seq |-> 0]
    IN  IF created.hasCategory THEN created
        ELSE [created EXCEPT !.hasCategory = TRUE,
                             !.rows = AddCategoryColumn(created.rows)]

\* ------------------------------------------------------------- scrapers
SCRAPERS == << "scraper_beritajombang", "scraper_kabarjombang",
               "scraper_jombangkab", "scraper_detik", "scraper_tribunjatim",
               "scraper_wartajombang" >>

AllUrls == {None, "", "u1", "u2"}

\* A <time datetime="..."> attribute of an article published just after
\* midnight, local time (+07:00), of the day after the UTC date of t.
LocalMidnight(t) == Stamp("isotz", DayOf(t) + 1, 0, 1)

\* What a call of scraper s at time t may return, depending on what the site
\* serves.  Every scraper returns [] when the listing cannot be fetched or
\* its selectors match nothing.
\*   beritajombang, kabarjombang: url is a.get("href") unchecked, so None or
\*     "" are possible; beritajombang takes published_at from a <time> tag
\*     and falls back to utcnow(); kabarjombang always uses utcnow(), and its
\*     two selectors may list one link twice.
\*   jombangkab: title and url are checked; published_at is utcnow() unless
\*     the page text matches parse_id_date.
\*   detik, tribunjatim, wartajombang: url is checked; published_at is the
\*     <time> attribute, its text, None when the page has no <time>, or
\*     utcnow() when the article page cannot be fetched.
\* In this model jombangkab and tribunjatim serve nothing that their
\* selectors match: they return [] or raise on every call.
ScraperResults(s, t) ==
    CASE s = "scraper_beritajombang" ->
           { << >>,
             << Item(TitleBupati, "", "beritajombang.com", isoformat(t)) >>,
             << Item(TitleBupati, "u1", "beritajombang.com", LocalMidnight(t)) >>,
             << Item(TitleInfo, None, "beritajombang.com", isoformat(t)) >> }
      [] s = "scraper_kabarjombang" ->
           { << >>,
             << Item(TitlePasarLiga, "u1", "kabarjombang.com", isoformat(t)),
                Item(TitlePasarLiga, "u1", "kabarjombang.com", isoformat(t)) >> }
      [] s = "scraper_jombangkab" ->
           { << >> }
      [] s = "scraper_detik" ->
           { << >>,
             << Item(TitleSidang, "u2", "detik.com", PubNone) >>,
             << Item(TitleSidang, "u2", "detik.com", PubText) >> }
      [] s = "scraper_tribunjatim" ->
           { << >> }
      [] s = "scraper_wartajombang" ->
           { << >>,
             << Item(TitlePasarLiga, "u2", "wartajombang", isoformat(t)) >> }

\* ------------------------------------------------------------- crawl_all
Idle == [pc |-> "idle", idx |-> 0, items |-> << >>, k |-> 0, batch |-> 0,
         total |-> 0]

\* crawl_all() entered: total = 0, the loop over SCRAPERS at its first entry.
Begin == [Idle EXCEPT !.pc = "fetch", !.idx = 1]

\* The loop `for s in SCRAPERS` moves on, or crawl_all returns total.
NextScraper(c) ==
    IF c.idx = Len(SCRAPERS)
      THEN [c EXCEPT !.pc = "done", !.items = << >>, !.k = 0, !.batch = 0]
      ELSE [c EXCEPT !.pc = "fetch", !.idx = c.idx + 1, !.items = << >>,
                     !.k = 0, !.batch = 0]

\* `except Exception: continue` around one scraper's call and save.
AfterRaise_abort(c) == [c EXCEPT !.pc = "done"]
AfterRaise(c) == NextScraper(c)

\* The loop `for a in items` of save_articles moves on, or reaches commit.
NextItem(c) ==
    IF c.k = Len(c.items) THEN [c EXCEPT !.pc = "commit"]
    ELSE [c EXCEPT !.k = c.k + 1]

\* items = s(): the scraper raises, or returns items; save_articles(items)
\* returns 0 at once for an empty list and otherwise connects.
ScraperCall(w) ==
    /\ cr[w].pc = "fetch"
    /\ invoked' = [invoked EXCEPT ![w] = @ + 1]
    /\ \/ cr' = [cr EXCEPT ![w] = AfterRaise(cr[w])]
       \/ \E items \in ScraperResults(SCRAPERS[cr[w].idx], now) :
            cr' = [cr EXCEPT ![w] =
                     IF items = << >> THEN NextScraper(cr[w])
                     ELSE [cr[w] EXCEPT !.pc = "save", !.items = items,
                                        !.k = 1, !.batch = 0]]
    /\ UNCHANGED << now, db, lock, pending, counted, added, main_pc,
                    crawl_thread, stop_flag, loops, starts, start_calls, sched_pc, sleep_i,
                    req_pc, trend, cat_in, cat_out >>

\* One iteration of `for a in items`: the row is built (category from the
\* title: no scraper emits a summary) and INSERT OR IGNORE is executed.  While
\* the table or its category column is missing, execute raises and the item
\* is skipped by `except Exception: continue`.
InsertStep(w) ==
    /\ cr[w].pc = "save"
    /\ IF ~ (db.exists /\ db.hasCategory)
         THEN /\ cr' = [cr EXCEPT ![w] = NextItem(cr[w])]
              /\ UNCHANGED << db, lock, pending, counted >>
         ELSE /\ CanWrite(w)
              /\ LET a == cr[w].items[cr[w].k]
                     row == Row(db.seq + Len(pending[w]) + 1, a.title, a.url,
                                a.source, a.published_at, isoformat(now),
                                categorize(a.title))
                     res == insert_or_ignore(db.rows, pending[w], row)
                 IN  /\ db' = [db EXCEPT !.rows = res.tbl]
                     /\ pending' = [pending EXCEPT ![w] = res.pend]
                     /\ lock' = w
                     /\ counted' = [counted EXCEPT ![a.url] = @ + res.rowcount]
                     /\ cr' = [cr EXCEPT ![w] =
                                 NextItem([cr[w] EXCEPT
                                             !.batch = @ + res.rowcount])]
    /\ UNCHANGED << now, invoked, added, main_pc, crawl_thread, stop_flag,
                    loops, starts, start_calls, sched_pc, sleep_i, req_pc, trend, cat_in,
                    cat_out >>

\* conn.commit(); conn.close(); return total -- and crawl_all's
\* total += save_articles(items).
Commit(w) ==
    /\ cr[w].pc = "commit"
    /\ LET rows == db.rows \cup RangeOf(pending[w])
       IN  /\ db' = [db EXCEPT !.rows = rows, !.seq = @ + Len(pending[w])]
           /\ added' = [added EXCEPT ![w] =
                          @ + Cardinality(rows) - Cardinality(db.rows)]
    /\ pending' = [pending EXCEPT ![w] = << >>]
    /\ lock' = IF lock = w THEN "none" ELSE lock
    /\ cr' = [cr EXCEPT ![w] =
                NextScraper([cr[w] EXCEPT !.total = @ + cr[w].batch])]
    /\ UNCHANGED << now, counted, invoked, main_pc, crawl_thread, stop_flag,
                    loops, starts, start_calls, sched_pc, sleep_i, req_pc, trend, cat_in,
                    cat_out >>

CrawlStep(w) == ScraperCall(w) \/ InsertStep(w) \/ Commit(w)

\* ------------------------------------------------------------- __main__
\* init_db()
MainInitDb ==
    /\ main_pc = "init_db"
    /\ db' = init_db(db)
    /\ main_pc' = "crawl"
    /\ UNCHANGED << now, lock, pending, counted, cr, invoked, added,
                    crawl_thread, stop_flag, loops, starts, start_calls, sched_pc, sleep_i,
                    req_pc, trend, cat_in, cat_out >>

\* try: crawl_all() -- the start-up crawl is entered ...
MainCrawlBegin ==
    /\ main_pc = "crawl"
    /\ cr["main"].pc = "idle"
    /\ cr' = [cr EXCEPT !["main"] = Begin]
    /\ invoked' = [invoked EXCEPT !["main"] = 0]
    /\ added' = [added EXCEPT !["main"] = 0]
    /\ UNCHANGED << now, db, lock, pending, counted, main_pc, crawl_thread,
                    stop_flag, loops, starts, start_calls, sched_pc, sleep_i, req_pc, trend,
                    cat_in, cat_out >>

\* ... and has returned.
MainCrawlEnd ==
    /\ main_pc = "crawl"
    /\ cr["main"].pc = "done"
    /\ cr' = [cr EXCEPT !["main"] = Idle]
    /\ main_pc' = "start"
    /\ UNCHANGED << now, db, lock, pending, counted, invoked, added,
                    crawl_thread, stop_flag, loops, starts, start_calls, sched_pc, sleep_i,
                    req_pc, trend, cat_in, cat_out >>

\* `if _crawl_thread is None`
ShouldStart_always == TRUE
ShouldStart == crawl_thread = "None"

\* start_scheduler(), invoked by __main__ start_calls times before app.run:
\* once as in the source, or repeatedly where a repeated invocation is
\* examined.
start_scheduler ==
    /\ main_pc = "start"
    /\ starts < start_calls
    /\ starts' = starts + 1
    /\ IF ShouldStart
         THEN /\ crawl_thread' = "Thread"
              /\ loops' = loops + 1
              /\ sched_pc' = IF sched_pc = "off" THEN "top" ELSE sched_pc
         ELSE UNCHANGED << crawl_thread, loops, sched_pc >>
    /\ UNCHANGED << now, db, lock, pending, counted, cr, invoked, added,
                    main_pc, stop_flag, start_calls, sleep_i, req_pc, trend,
                    cat_in, cat_out >>

\* app.run(...): requests are served from here on.
AppRun ==
    /\ main_pc = "start"
    /\ starts = start_calls
    /\ main_pc' = "serve"
    /\ UNCHANGED << now, db, lock, pending, counted, cr, invoked, added,
                    crawl_thread, stop_flag, loops, starts, start_calls, sched_pc, sleep_i,
                    req_pc, trend, cat_in, cat_out >>

MainNext ==
    \/ MainInitDb
    \/ MainCrawlBegin
    \/ CrawlStep("main")
    \/ MainCrawlEnd
    \/ start_scheduler
    \/ AppRun

\* ------------------------------------------------------------- scheduler_loop
\* `while not _stop_flag:` then `try: crawl_all()`.
SchedTop ==
    /\ sched_pc = "top"
    /\ IF stop_flag
         THEN /\ sched_pc' = "exit"
              /\ UNCHANGED << cr, invoked, added >>
         ELSE /\ sched_pc' = "crawl"
              /\ cr' = [cr EXCEPT !["sched"] = Begin]
              /\ invoked' = [invoked EXCEPT !["sched"] = 0]
              /\ added' = [added EXCEPT !["sched"] = 0]
    /\ UNCHANGED << now, db, lock, pending, counted, main_pc, crawl_thread,
                    stop_flag, loops, starts, start_calls, sleep_i, req_pc, trend, cat_in,
                    cat_out >>

\* crawl_all() has returned (an exception would be passed over here): the
\* sleep loop `for _ in range(3600)` is entered.
SchedPassEnd ==
    /\ sched_pc = "crawl"
    /\ cr["sched"].pc = "done"
    /\ cr' = [cr EXCEPT !["sched"] = Idle]
    /\ sched_pc' = "sleep"
    /\ sleep_i' = 0
    /\ UNCHANGED << now, db, lock, pending, counted, invoked, added, main_pc,
                    crawl_thread, stop_flag, loops, starts, start_calls, req_pc, trend,
                    cat_in, cat_out >>

\* One iteration of the sleep loop, `if _stop_flag: break; time.sleep(1)`, or
\* the loop's end and the return to `while not _stop_flag`.
SleepLoopDone_nowait(i) == TRUE
SleepLoopDone(i) == i >= SleepIters

SchedSleep ==
    /\ sched_pc = "sleep"
    /\ IF SleepLoopDone(sleep_i) \/ stop_flag
         THEN /\ sched_pc' = "top"
              /\ UNCHANGED sleep_i
         ELSE /\ sleep_i' = sleep_i + 1
              /\ UNCHANGED sched_pc
    /\ UNCHANGED << now, db, lock, pending, counted, cr, invoked, added,
                    main_pc, crawl_thread, stop_flag, loops, starts, start_calls, req_pc,
                    trend, cat_in, cat_out >>

SchedNext ==
    \/ SchedTop
    \/ (sched_pc = "crawl" /\ CrawlStep("sched"))
    \/ SchedPassEnd
    \/ SchedSleep

\* ------------------------------------------------------------- /crawl-now
\* A request arrives: added = crawl_all() ...
CrawlNowBegin ==
    /\ main_pc = "serve"
    /\ req_pc = "idle"
    /\ req_pc' = "crawl"
    /\ cr' = [cr EXCEPT !["req"] = Begin]
    /\ invoked' = [invoked EXCEPT !["req"] = 0]
    /\ added' = [added EXCEPT !["req"] = 0]
    /\ UNCHANGED << now, db, lock, pending, counted, main_pc, crawl_thread,
                    stop_flag, loops, starts, start_calls, sched_pc, sleep_i, trend,
                    cat_in, cat_out >>

\* ... and the response {"status": "ok", "added": added} is sent.
CrawlNowEnd ==
    /\ req_pc = "crawl"
    /\ cr["req"].pc = "done"
    /\ req_pc' = "idle"
    /\ cr' = [cr EXCEPT !["req"] = Idle]
    /\ UNCHANGED << now, db, lock, pending, counted, invoked, added, main_pc,
                    crawl_thread, stop_flag, loops, starts, start_calls, sched_pc, sleep_i,
                    trend, cat_in, cat_out >>

ReqNext ==
    \/ CrawlNowBegin
    \/ (req_pc = "crawl" /\ CrawlStep("req"))
    \/ CrawlNowEnd

\* ------------------------------------------------------------- /api/trend
NoTrend == [valid |-> FALSE, days |-> 0, at |-> 0, labels |-> << >>,
            counts |-> << >>]

\* api_trend() with ?days=days at time t over the committed rows.
api_trend(rows, t, days) ==
    LET since == t - days * TicksPerDay
        data == {r \in rows :
                   /\ sql_datetime(r.published_at) # NULL
                   /\ sql_datetime(r.published_at) >= since}
        map_counts(d) ==
            Cardinality({r \in data : sql_substr10(r.published_at) = d})
        day_iter == [i \in 1..(days + 1) |-> DayOf(since) + i - 1]
    IN  [valid |-> TRUE, days |-> days, at |-> t, labels |-> day_iter,
         counts |-> [i \in 1..(days + 1) |-> map_counts(day_iter[i])]]

ApiTrend ==
    /\ main_pc = "serve"
    /\ db.exists
    /\ \E days \in 0..MaxDays : trend' = api_trend(db.rows, now, days)
    /\ UNCHANGED << now, db, lock, pending, counted, cr, invoked, added,
                    main_pc, crawl_thread, stop_flag, loops, starts, start_calls, sched_pc,
                    sleep_i, req_pc, cat_in, cat_out >>

\* ------------------------------------------------------------- the clock
Tick ==
    /\ now < NowStart + MaxTicks
    /\ now' = now + 1
    /\ UNCHANGED << db, lock, pending, counted, cr, invoked, added, main_pc,
                    crawl_thread, stop_flag, loops, starts, start_calls, sched_pc, sleep_i,
                    req_pc, trend, cat_in, cat_out >>

\* ------------------------------------------------------------- start
\* news.db at start-up: missing, left by a version without the category
\* column, or left by an earlier run of this version.
OldRow == Row(1, TitleInfo, "u1", "detik.com",
              isoformat(NowStart - TicksPerDay),
              isoformat(NowStart - TicksPerDay), NoColumn)
DbMissing == [exists |-> FALSE, hasCategory |-> FALSE, rows |-> {}, seq |-> 0]
DbLegacy == [exists |-> TRUE, hasCategory |-> FALSE, rows |-> {OldRow},
             seq |-> 1]
DbCurrent == [exists |-> TRUE, hasCategory |-> TRUE,
              rows |-> {[OldRow EXCEPT !.category = categorize(OldRow.title)]}, seq |-> 1]

InitProgram ==
    /\ now = NowStart
    /\ lock = "none"
    /\ pending = [w \in Writers |-> << >>]
    /\ counted = [u \in AllUrls |-> IF u \in UrlsOf(db.rows) THEN 1 ELSE 0]
    /\ cr = [w \in Writers |-> Idle]
    /\ invoked = [w \in Writers |-> 0]
    /\ added = [w \in Writers |-> 0]
    /\ main_pc = "init_db"
    /\ crawl_thread = "None"
    /\ stop_flag = FALSE
    /\ loops = 0
    /\ starts = 0
    /\ sched_pc = "off"
    /\ sleep_i = 0
    /\ req_pc = "idle"
    /\ trend = NoTrend

Init ==
    /\ db \in {DbMissing, DbLegacy, DbCurrent}
    /\ InitProgram
    /\ start_calls = 1
    /\ cat_in = << >>
    /\ cat_out = "unset"

\* The program within one tick of the clock: __main__, the scheduler thread
\* and the thread serving /crawl-now.
Next == MainNext \/ SchedNext \/ ReqNext

Spec == Init /\ [][Next]_vars

\* __main__ and the scheduler thread over time, with no manual crawl;
\* start_scheduler is invoked once or more.
InitSched ==
    /\ db \in {DbMissing, DbLegacy, DbCurrent}
    /\ InitProgram
    /\ start_calls \in 1..MaxStarts
    /\ cat_in = << >>
    /\ cat_out = "unset"

NextSched == MainNext \/ SchedNext \/ Tick

SpecSched == InitSched /\ [][NextSched]_vars

\* __main__ and the scheduler thread on a new database, both scheduled fairly:
\* a thread that can take a step eventually takes one.  The wait is counted in
\* iterations of the sleep loop, so the clock stands still here.
InitLoop ==
    /\ db = DbMissing
    /\ InitProgram
    /\ start_calls = 1
    /\ cat_in = << >>
    /\ cat_out = "unset"

NextLoop == MainNext \/ SchedNext

SpecLoop ==
    InitLoop /\ [][NextLoop]_vars /\ WF_vars(MainNext) /\ WF_vars(SchedNext)

\* Start-up, then /api/trend requests over time.
NextTrend == MainNext \/ Tick \/ ApiTrend

SpecTrend == Init /\ [][NextTrend]_vars

\* ------------------------------------------------------------- categorize alone
Fragments ==
    { <<"k","p">>, <<"u">>, <<"K","P","U">>, <<"p","a","s","a","r">>,
      <<"L","i","g","a">>, <<"h","u","k","u","m">>, <<" ">>, <<"x">>,
      <<"u","m","k","m">>, <<"B","u","p","a","t","i">> }

RECURSIVE TextsOf(_)
TextsOf(n) ==
    IF n = 0 THEN { << >> }
    ELSE TextsOf(n - 1) \cup {t \o f : t \in TextsOf(n - 1), f \in Fragments}

Texts == TextsOf(MaxFrags) \cup {NoneText}

InitCat ==
    /\ db = DbMissing
    /\ InitProgram
    /\ start_calls = 1
    /\ cat_in \in Texts
    /\ cat_out = "unset"

ApplyCategorize ==
    /\ cat_out = "unset"
    /\ cat_out' = categorize(cat_in)
    /\ UNCHANGED << now, db, lock, pending, counted, cr, invoked, added,
                    main_pc, crawl_thread, stop_flag, loops, starts,
                    start_calls, sched_pc, sleep_i, req_pc, trend, cat_in >>

SpecCat == InitCat /\ [][ApplyCategorize]_vars

\* ------------------------------------------------------------- claims
\* The categories of CATEGORY_KEYWORDS with a keyword that occurs in the
\* lowercased text.
MatchingCategories(text) ==
    {i \in 1..Len(CATEGORY_KEYWORDS) :
       \E j \in 1..Len(CATEGORY_KEYWORDS[i].kws) :
          Contains(CATEGORY_KEYWORDS[i].kws[j], lower(text))}

Least(S) == CHOOSE i \in S : \A j \in S : i <= j

FirstDeclared(text) ==
    IF text = NoneText \/ text = << >> \/ MatchingCategories(text) = {}
      THEN "Lainnya"
      ELSE CATEGORY_KEYWORDS[Least(MatchingCategories(text))].cat

\* C7: categorize returns the first category in declared order that has a
\* keyword occurring in the lowercased text, and "Lainnya" for an empty, absent
\* or non-matching text.
C7_FirstMatch == cat_out # "unset" => cat_out = FirstDeclared(cat_in)

\* C7's case: the text "umkmKPU" holds a keyword of Ekonomi before one of
\* Pemerintahan (in upper case), and Pemerintahan, declared first, is returned.
C7_Witness ==
    /\ cat_in = <<"u","m","k","m","K","P","U">>
    /\ cat_out = "Pemerintahan"

\* The rows one connection sees: the committed ones and its own.
Visible(w) == db.rows \cup RangeOf(pending[w])

\* Writer w takes the step of save_articles that executes the insert of its
\* current item.
Inserts(w) == cr[w].pc = "save" /\ cr'[w] # cr[w]

CurrentItem(w) == cr[w].items[cr[w].k]

SameFields(r, a) ==
    /\ r.title = a.title
    /\ r.url = a.url
    /\ r.source = a.source
    /\ r.published_at = a.published_at

\* C1: the table never holds two rows with one url, and the insert of an item
\* whose url is already stored writes no row, is not counted and raises
\* nothing (save_articles goes on to the next item or to its commit).
C1_IdempotentIngestion ==
    /\ [](\A r, q \in db.rows : r.url = q.url => r = q)
    /\ [][\A w \in Writers :
            (Inserts(w) /\ CurrentItem(w).url \in UrlsOf(Visible(w)))
            => /\ db'.rows = db.rows
               /\ pending' = pending
               /\ counted' = counted
               /\ cr'[w].batch = cr[w].batch
               /\ cr'[w].pc \in {"save", "commit"}
               /\ cr'[w].idx = cr[w].idx]_vars

\* C1's case: a save_articles call has been given the very item an earlier
\* call stored, and is about to commit with nothing inserted.
C1_Witness ==
    \E w \in Writers :
       /\ cr[w].pc = "commit"
       /\ Len(cr[w].items) = 1
       /\ cr[w].batch = 0
       /\ pending[w] = << >>
       /\ \E r \in db.rows : SameFields(r, cr[w].items[1])

\* How many rows with url u there are, over the committed table and every
\* connection's uncommitted rows.
Occurrences(u) ==
    Cardinality({r \in db.rows : r.url = u})
    + Cardinality({i \in 1..Len(pending["main"]) : pending["main"][i].url = u})
    + Cardinality({i \in 1..Len(pending["sched"]) : pending["sched"][i].url = u})
    + Cardinality({i \in 1..Len(pending["req"]) : pending["req"][i].url = u})

\* The items of w's current save_articles call whose insert has been executed.
Processed(w) ==
    IF cr[w].pc = "commit" THEN RangeOf(cr[w].items)
    ELSE IF cr[w].pc = "save"
           THEN {cr[w].items[i] : i \in 1..(cr[w].k - 1)}
           ELSE {}

\* C2: with the scheduler's crawl_all and a /crawl-now crawl_all running
\* concurrently, each on its own connection, every url has at most one row
\* over all connections and has been counted as inserted exactly as often as
\* it has a row (once, by one writer), and every item a writer has processed
\* that the table admits has its row, whatever the other writer does.
C2_OneWinner ==
    /\ \A u \in AllUrls : Occurrences(u) <= 1 /\ counted[u] = Occurrences(u)
    /\ \A w \in Writers : \A a \in Processed(w) :
          ~ NotNullViolation(a) => Occurrences(a.url) = 1

\* C2's case: one of the two concurrent writers holds the write lock with an
\* uncommitted row for a url while the other is at the insert of an item with
\* the same url.
C2_Witness ==
    \E w1, w2 \in {"sched", "req"} :
       /\ w1 # w2
       /\ lock = w1
       /\ cr[w2].pc = "save"
       /\ CurrentItem(w2).url \in UrlsOf(RangeOf(pending[w1]))

\* C3: every step keeps every stored row, with its id, title, url, source,
\* published_at and created_at, and with its category once the table has the
\* column.
C3_RowsImmutable ==
    [][\A r \in db.rows : \E q \in db'.rows :
          /\ q.id = r.id
          /\ q.title = r.title
          /\ q.url = r.url
          /\ q.source = r.source
          /\ q.published_at = r.published_at
          /\ q.created_at = r.created_at
          /\ (db.hasCategory => q.category = r.category)]_vars

\* C3's case: save_articles has executed the insert of an item whose url is
\* stored with another title and source.
C3_Witness ==
    \E w \in Writers :
       /\ cr[w].pc = "commit"
       /\ \E r \in db.rows :
             /\ r.url = cr[w].items[1].url
             /\ r.title # cr[w].items[1].title
             /\ r.source # cr[w].items[1].source
             /\ r.published_at # cr[w].items[1].published_at

\* Writer w takes the step of crawl_all in which scraper cr[w].idx raises or
\* returns an empty list.
ScraperFails(w) ==
    cr[w].pc = "fetch" /\ cr'[w] # cr[w] /\ cr'[w].pc # "save"

\* Writer w takes the step that ends a save_articles call.
Commits(w) == cr[w].pc = "commit" /\ cr'[w] # cr[w]

\* C4: a scraper that raises or returns nothing leaves the pass's total and
\* the table as they are and is followed by the next scraper (the pass ends
\* only after the last one); a save_articles call leaves a row for every item
\* of its scraper that the table admits; and crawl_all returns, after all of
\* SCRAPERS have been called, the number of rows its saves added.
C4_FaultIsolation ==
    /\ [](\A w \in Writers :
             cr[w].pc = "done" =>
                /\ invoked[w] = Len(SCRAPERS)
                /\ cr[w].total = added[w])
    /\ [][\A w \in Writers :
            /\ ScraperFails(w) =>
                 /\ cr'[w].total = cr[w].total
                 /\ db' = db
                 /\ IF cr[w].idx < Len(SCRAPERS)
                      THEN cr'[w].pc = "fetch" /\ cr'[w].idx = cr[w].idx + 1
                      ELSE cr'[w].pc = "done"
            /\ Commits(w) =>
                 \A a \in RangeOf(cr[w].items) :
                    ~ NotNullViolation(a) => a.url \in UrlsOf(db'.rows)]_vars

\* C4's case: a pass has ended in which scraper_jombangkab and
\* scraper_tribunjatim failed (they do on every call), all six scrapers were
\* called, and the rows of the others were added and counted.
C4_Witness ==
    \E w \in Writers :
       /\ cr[w].pc = "done"
       /\ invoked[w] = Len(SCRAPERS)
       /\ cr[w].total >= 2
       /\ \E r \in db.rows : r.source = "wartajombang"

Categories == {"Pemerintahan", "Ekonomi", "Olahraga", "Hukum", "Lainnya"}

AllPending ==
    RangeOf(pending["main"]) \cup RangeOf(pending["sched"])
       \cup RangeOf(pending["req"])

\* C6: once the table has its category column, every row, committed or not,
\* has one of the five categories; the step that adds the column leaves every
\* row that was there with "Lainnya"; and init_db on a table that has the
\* column changes nothing.
C6_CategoryInSet ==
    /\ [](db.hasCategory =>
             \A r \in db.rows \cup AllPending : r.category \in Categories)
    /\ [][/\ (~ db.hasCategory /\ db'.hasCategory) =>
                \A r \in db.rows : \E q \in db'.rows :
                   q.id = r.id /\ q.url = r.url /\ q.category = "Lainnya"
          /\ (main_pc = "init_db" /\ main_pc' # "init_db" /\ db.hasCategory) =>
                db' = db]_vars

\* C6's case: the table holds the row that was there before the column was
\* added, reading "Lainnya", beside rows inserted since with other categories.
C6_Witness ==
    /\ db.hasCategory
    /\ \E r \in db.rows : r.id = 1 /\ r.source = "detik.com" /\ r.category = "Lainnya"
    /\ \E r \in db.rows : r.category = "Pemerintahan"
    /\ \E r \in db.rows : r.category = "Ekonomi"

\* C9: no stored row has an empty url.
C9_NoEmptyUrl == \A r \in db.rows : r.url # ""

\* C5: however often start_scheduler has been invoked, at most one scheduler
\* loop has been started: none before the first invocation, one after it.
C5_StartOnce ==
    /\ loops <= 1
    /\ (starts = 0 => loops = 0 /\ crawl_thread = "None" /\ sched_pc = "off")
    /\ (starts >= 1 => loops = 1 /\ crawl_thread = "Thread" /\ sched_pc # "off")

\* C5's case: start_scheduler has been invoked a second time.
C5_Witness == starts = 2 /\ loops = 1

\* The in-range instant a timestamp text stands for, and the rows whose
\* published_at is an instant of [since, until].
InRange(rows, since, until) ==
    {r \in rows :
       /\ r.published_at.fmt \in {"iso", "isotz"}
       /\ since <=
            r.published_at.day * TicksPerDay + r.published_at.tod
               - r.published_at.off
       /\ r.published_at.day * TicksPerDay + r.published_at.tod
               - r.published_at.off <= until}

RECURSIVE SumTo(_, _)
SumTo(f, n) == IF n = 0 THEN 0 ELSE f[n] + SumTo(f, n - 1)

\* C8: a response of /api/trend lists every calendar day of [since, until]
\* once, in order, and its counts add up to the number of stored articles
\* published in [since, until].  (No row is written while requests are
\* served under SpecTrend, so db.rows are the rows the response was made of.)
C8_DailyCounts ==
    trend.valid =>
       LET since == trend.at - trend.days * TicksPerDay
       IN  /\ Len(trend.labels) = DayOf(trend.at) - DayOf(since) + 1
           /\ Len(trend.counts) = Len(trend.labels)
           /\ \A i \in 1..Len(trend.labels) :
                 trend.labels[i] = DayOf(since) + i - 1
           /\ SumTo(trend.counts, Len(trend.counts))
                = Cardinality(InRange(db.rows, since, trend.at))

\* C10: the scheduler thread goes from the top of its loop into a crawl pass
\* and never straight to the wait; it enters the wait only from a pass and
\* leaves it only after all iterations of the sleep loop, for the top of the
\* loop; it never leaves the loop; and, the thread being scheduled, every wait
\* is followed by a pass and every pass by a wait.
C10_SchedulerLoop ==
    /\ [][/\ (sched_pc = "top" /\ sched_pc' # "top") => sched_pc' = "crawl"
          /\ (sched_pc # "sleep" /\ sched_pc' = "sleep") =>
                sched_pc = "crawl" /\ cr["sched"].pc = "done" /\ sleep_i' = 0
          /\ (sched_pc = "sleep" /\ sched_pc' # "sleep") =>
                sleep_i = SleepIters /\ sched_pc' = "top"]_vars
    /\ [](sched_pc # "exit")
    /\ (crawl_thread = "Thread" ~> sched_pc = "crawl")
    /\ (sched_pc = "sleep" ~> sched_pc = "crawl")
    /\ (sched_pc = "crawl" ~> sched_pc = "sleep")

\* C10's case: the scheduler has completed a pass in which a scraper failed
\* (scraper_jombangkab and scraper_tribunjatim always do) and has waited the
\* whole interval.
C10_Witness ==
    /\ sched_pc = "sleep"
    /\ sleep_i = SleepIters
    /\ added["sched"] >= 1

\* ------------------------------------------------------------- C11
\* normalize_datetime(dt_str) called at time t, its result written back with
\* isoformat().  A text with an offset matches "%Y-%m-%dT%H:%M:%S%z" and is
\* kept, offset included.  The "iso" texts of this model are all made by
\* datetime.utcnow().isoformat(), which carries microseconds: strptime leaves
\* ".ffffff" unconverted under every candidate, so they resolve like a display
\* text and like None (strptime raises TypeError) to datetime.utcnow().
normalize_datetime(p, t) ==
    IF p.fmt = "isotz" THEN p ELSE isoformat(t)

\* The urls a row can be stored under without touching the url constraints.
ProperUrls == AllUrls \ {None, ""}

\* C11: when save_articles executes the insert of an item with a proper url
\* on an initialised table, the connection then sees a row for that url (the
\* item is not dropped), and a row written by this insert has the
\* published_at that normalize_datetime gives for the item's timestamp text:
\* the current instant when the text is absent or matches no pattern.
C11_PublishedAtNormalised ==
    [][\A w \in Writers :
          (/\ Inserts(w)
           /\ db.exists /\ db.hasCategory
           /\ CurrentItem(w).url \in ProperUrls)
          => /\ CurrentItem(w).url \in UrlsOf(db'.rows \cup RangeOf(pending'[w]))
             /\ \A r \in (db'.rows \cup RangeOf(pending'[w]))
                            \ (db.rows \cup RangeOf(pending[w])) :
                   r.published_at
                     = normalize_datetime(CurrentItem(w).published_at, now)]_vars
====
